---------------------------- MODULE Spec2Model ----------------------------
(* A model of the OAuth token lifecycle of tauri-youtube-oauth              *)
(* (src-tauri/src/main.rs): the two persisted JSON records, the code        *)
(* exchange (command and callback task), the refresh, and the               *)
(* authenticated call with its refresh-before-use decision.                 *)
(*                                                                          *)
(* Strings: "" is the empty string; "absent" stands for a JSON key that is  *)
(* missing or not a string; -1 stands for an expires_in that is missing or  *)
(* not an unsigned integer; "nocode" for a callback without ?code=.         *)
EXTENDS Integers, FiniteSets, Sequences, TLC

VARIABLES clock, cfgFile, tokFile, lastWriter, sc, xp, rf, yt, ops,
          listener, oa, saved

vars == <<clock, cfgFile, tokFile, lastWriter, sc, xp, rf, yt, ops,
          listener, oa, saved>>

-----------------------------------------------------------------------------
(* Bounds *)

\* operations (commands and callback requests) started in one run
MaxOps == 2

(* Program constants *)

\* the 60 s buffer of the auto refresh
REFRESH_SKEW_SECONDS == 60

-----------------------------------------------------------------------------
(* Values *)

Absent == "absent"
NoCode == "nocode"

\* the values of the wall clock, in seconds
Times == {0, 3541}

\* SystemTime::now().duration_since(UNIX_EPOCH).unwrap().as_secs()
now_secs == clock

\* what the token endpoint can answer
ExchangeAccess == {Absent, "", "A1"}
RefreshAccess  == {Absent, "", "A2"}
ExchangeRefresh == {Absent, "R1"}
RefreshRefresh  == {Absent, "R2"}
ExpiresJson == {-1, 0, 3600}

Codes == {"c1"}

\* struct Tokens and Tokens::default()
Tokens(a, r, e, c) ==
  [access_token |-> a, refresh_token |-> r, expires_in |-> e, created_at |-> c]

TokDefault == Tokens("", "", 0, 0)

\* struct AppConfig and AppConfig::default()
AppConfig(id, sec) == [client_id |-> id, client_secret |-> sec]

CfgDefault == AppConfig("", "")

Creds == {AppConfig("id1", "s1"), AppConfig("id2", "s2")}

\* token sets an earlier session can have left in tokens.json
StoredTokens ==
  { Tokens("A1", "R1", 3600, 0), Tokens("A1", "", 3600, 0), Tokens("A1", "R1", 0, 0) }

-----------------------------------------------------------------------------
(* The two files. st: "none" no file, "torn" truncated or partly written,  *)
(* "ok" a complete JSON document v. A document is the sequence of its       *)
(* members, each a key and a JSON value (a string or a number).             *)

JStr(s) == [type |-> "string", s |-> s, n |-> 0]
JNum(n) == [type |-> "number", s |-> "", n |-> n]

Member(k, val) == [k |-> k, val |-> val]

\* the text of a file that was truncated and not written
EmptyText == <<>>

Some(x) == [some |-> TRUE, v |-> x]

HasKey(doc, key) == \E j \in DOMAIN doc : doc[j].k = key

Get(doc, key) == doc[CHOOSE j \in DOMAIN doc : doc[j].k = key].val

\* serde_json::to_string_pretty(cfg): the fields of AppConfig in their order
to_string_pretty_config(cfg) ==
  << Member("client_id", JStr(cfg.client_id)),
     Member("client_secret", JStr(cfg.client_secret)) >>

\* faulty variant: created_at is left out of the document
to_string_pretty_without_created_at(t) ==
  << Member("access_token", JStr(t.access_token)),
     Member("refresh_token", JStr(t.refresh_token)),
     Member("expires_in", JNum(t.expires_in)) >>

\* serde_json::to_string_pretty(t): the fields of Tokens in their order
to_string_pretty(t) ==
  << Member("access_token", JStr(t.access_token)),
     Member("refresh_token", JStr(t.refresh_token)),
     Member("expires_in", JNum(t.expires_in)),
     Member("created_at", JNum(t.created_at)) >>

\* a String field of a derived Deserialize: the key must be there, a string
StrField(doc, key) == HasKey(doc, key) /\ Get(doc, key).type = "string"

\* a u64 field with #[serde(default)]: a number when the key is there
U64FieldOrDefault(doc, key) == HasKey(doc, key) => Get(doc, key).type = "number"

U64OrDefault(doc, key) == IF HasKey(doc, key) THEN Get(doc, key).n ELSE 0

\* serde_json::from_str::<AppConfig>(&s).ok()
from_str_config(doc) ==
  IF StrField(doc, "client_id") /\ StrField(doc, "client_secret")
    THEN Some(AppConfig(Get(doc, "client_id").s, Get(doc, "client_secret").s))
    ELSE [some |-> FALSE, v |-> CfgDefault]

\* serde_json::from_str::<Tokens>(&s).ok()
from_str(doc) ==
  IF /\ StrField(doc, "access_token")
     /\ StrField(doc, "refresh_token")
     /\ U64FieldOrDefault(doc, "expires_in")
     /\ U64FieldOrDefault(doc, "created_at")
    THEN Some(Tokens(Get(doc, "access_token").s, Get(doc, "refresh_token").s,
                     U64OrDefault(doc, "expires_in"),
                     U64OrDefault(doc, "created_at")))
    ELSE [some |-> FALSE, v |-> TokDefault]

FileNone == [st |-> "none", v |-> EmptyText]
FileTorn == [st |-> "torn", v |-> EmptyText]
FileOk(v) == [st |-> "ok", v |-> v]

\* oauth_config.json / tokens.json holding the document of a value
ConfigFile(cfg) == FileOk(to_string_pretty_config(cfg))
TokensFile(t) == FileOk(to_string_pretty(t))

\* fs::read_to_string(p).ok()? then serde_json::from_str(&s).ok():
\* a missing file and an unparsable one both give None
read_config_from_dir ==
  IF cfgFile.st = "none"
    THEN [some |-> FALSE, v |-> CfgDefault]
    ELSE from_str_config(cfgFile.v)

read_tokens_from_dir ==
  IF tokFile.st = "none"
    THEN [some |-> FALSE, v |-> TokDefault]
    ELSE from_str(tokFile.v)

\* json.get(k).and_then(|v| v.as_str()).unwrap_or_default()
AsStrOrDefault(v) == IF v = Absent THEN "" ELSE v

\* json.get(k).and_then(|v| v.as_u64()).unwrap_or(0)
AsU64OrZero(v) == IF v < 0 THEN 0 ELSE v

\* a.saturating_sub(b) on u64
saturating_sub(a, b) == IF a >= b THEN a - b ELSE 0

-----------------------------------------------------------------------------
(* Processes *)

\* process 0 is the exchange_code command, process 1 the task of a callback
\* request (one callback task alive at a time)
TaskIds == {1}
ExIds == {0} \cup TaskIds

Page == "<h2>Autoryzacja zakonczona. Mozesz zamknac to okno.</h2>"

\* no answer received yet
JsonNone == [access_token |-> "none", refresh_token |-> "none", expires_in |-> -1]

ScIdle == [pc |-> "idle", cfg |-> CfgDefault, res |-> "none"]

XpFree ==
  [pc |-> "free", code |-> NoCode, cfg |-> CfgDefault, t |-> TokDefault,
   acc |-> "none", res |-> "none", resp |-> "none",
   sent |-> FALSE, touched |-> FALSE, writes |-> 0, json |-> JsonNone]

RfIdle ==
  [pc |-> "idle", caller |-> "none", cfg |-> CfgDefault, t |-> TokDefault,
   nt |-> TokDefault, json |-> JsonNone, res |-> "none",
   sent |-> FALSE, touched |-> FALSE]

YtIdle ==
  [pc |-> "idle", t |-> TokDefault, now |-> 0, need |-> FALSE,
   bearer |-> "none", res |-> "none", found |-> FALSE]

\* start_oauth: launched when the browser command has been spawned on the
\* consent URL, client_id the client_id put into that URL
OaIdle == [pc |-> "idle", res |-> "none", launched |-> FALSE, client_id |-> ""]

\* the callback listener: st "starting" until the setup closure has run,
\* then "listening" or, when the port could not be bound, "failed"; binds
\* counts the binds of 127.0.0.1:14321 attempted
ListenerNew == [st |-> "starting", binds |-> 0]

\* the records last saved whole: what the files held when the application
\* started, then the value of the last write that completed
SavedIn(cf, tf) ==
  [cfg |-> IF cf.st = "none" THEN [some |-> FALSE, v |-> CfgDefault]
                             ELSE from_str_config(cf.v),
   tok |-> IF tf.st = "none" THEN [some |-> FALSE, v |-> TokDefault]
                             ELSE from_str(tf.v)]

Init ==
  /\ clock = 0
  /\ cfgFile \in {FileNone, ConfigFile(AppConfig("id1", "s1"))}
  /\ tokFile \in {FileNone} \cup {TokensFile(t) : t \in StoredTokens}
  /\ lastWriter = "none"
  /\ sc = ScIdle
  /\ xp = [i \in ExIds |-> XpFree]
  /\ rf = RfIdle
  /\ yt = YtIdle
  /\ ops = 0
  /\ listener = ListenerNew
  /\ oa = OaIdle
  /\ saved = SavedIn(cfgFile, tokFile)

\* The UI awaits each command before it invokes the next one: the commands
\* run one at a time, concurrently with the callback tasks of the listener
\* thread.
NoCommand ==
  /\ listener.st # "starting"
  /\ oa.pc = "idle"
  /\ sc.pc = "idle"
  /\ xp[0].pc = "free"
  /\ rf.pc = "idle"
  /\ yt.pc = "idle"

-----------------------------------------------------------------------------
(* main: the setup closure spawns the listener thread, which binds the     *)
(* callback port once (the config directory is taken to exist); the        *)
(* commands are served from then on.                                        *)

setup ==
  /\ listener.st = "starting"
  /\ \E st \in {"listening", "failed"} :
       listener' = [st |-> st, binds |-> listener.binds + 1]
  /\ UNCHANGED <<clock, cfgFile, tokFile, lastWriter, sc, xp, rf, yt, ops, oa, saved>>

-----------------------------------------------------------------------------
(* start_oauth: read the config, build the consent URL, spawn the browser  *)
(* command and return; the result of the spawn is dropped.                  *)

\* faulty variant: a login binds the callback port again
start_oauth_binds_listener ==
  /\ NoCommand
  /\ ops < MaxOps
  /\ ops' = ops + 1
  /\ listener' = [listener EXCEPT !.binds = @ + 1]
  /\ LET cfg == read_config_from_dir
     IN  oa' = IF cfg.some
                 THEN [OaIdle EXCEPT !.pc = "done", !.res = "Ok",
                                     !.launched = TRUE,
                                     !.client_id = cfg.v.client_id]
                 ELSE [OaIdle EXCEPT !.pc = "done", !.res = "MissingConfig"]
  /\ UNCHANGED <<clock, cfgFile, tokFile, lastWriter, sc, xp, rf, yt, saved>>

\* faulty variant: the browser is launched before the config is looked at
start_oauth_launches_first ==
  /\ NoCommand
  /\ ops < MaxOps
  /\ ops' = ops + 1
  /\ LET cfg == read_config_from_dir
     IN  oa' = IF cfg.some
                 THEN [OaIdle EXCEPT !.pc = "done", !.res = "Ok",
                                     !.launched = TRUE,
                                     !.client_id = cfg.v.client_id]
                 ELSE [OaIdle EXCEPT !.pc = "done", !.res = "MissingConfig",
                                     !.launched = TRUE]
  /\ UNCHANGED <<clock, cfgFile, tokFile, lastWriter, sc, xp, rf, yt, listener, saved>>

start_oauth ==
  /\ NoCommand
  /\ ops < MaxOps
  /\ ops' = ops + 1
  /\ LET cfg == read_config_from_dir
     IN  oa' = IF cfg.some
                 THEN [OaIdle EXCEPT !.pc = "done", !.res = "Ok",
                                     !.launched = TRUE,
                                     !.client_id = cfg.v.client_id]
                 ELSE [OaIdle EXCEPT !.pc = "done", !.res = "MissingConfig"]
  /\ UNCHANGED <<clock, cfgFile, tokFile, lastWriter, sc, xp, rf, yt, listener, saved>>

\* the command returns to the UI
start_oauth_return ==
  /\ oa.pc = "done"
  /\ oa' = OaIdle
  /\ UNCHANGED <<clock, cfgFile, tokFile, lastWriter, sc, xp, rf, yt, ops, listener, saved>>

-----------------------------------------------------------------------------
(* set_config: write_config_to_dir. fs::write opens the file truncating it *)
(* and then writes the document, so the write is two steps; either can     *)
(* fail.                                                                    *)

set_config(c) ==
  /\ NoCommand
  /\ ops < MaxOps
  /\ ops' = ops + 1
  /\ sc' = [sc EXCEPT !.pc = "w1", !.cfg = c]
  /\ UNCHANGED <<clock, cfgFile, tokFile, lastWriter, xp, rf, yt, listener, oa, saved>>

write_config_open_ok ==
  /\ sc.pc = "w1"
  /\ cfgFile' = FileTorn
  /\ sc' = [sc EXCEPT !.pc = "w2"]
  /\ UNCHANGED <<clock, tokFile, lastWriter, xp, rf, yt, ops, listener, oa, saved>>

\* fs::write returns an error
write_config_fails ==
  /\ sc.pc \in {"w1", "w2"}
  /\ sc' = [sc EXCEPT !.pc = "done", !.res = "PersistError"]
  /\ UNCHANGED <<clock, cfgFile, tokFile, lastWriter, xp, rf, yt, ops, listener, oa, saved>>

\* faulty variant: set_config writes the directory anew and takes the token
\* set with it
write_config_data_ok_drops_tokens ==
  /\ sc.pc = "w2"
  /\ cfgFile' = ConfigFile(sc.cfg)
  /\ tokFile' = FileNone
  /\ saved' = [saved EXCEPT !.cfg = Some(sc.cfg)]
  /\ sc' = [sc EXCEPT !.pc = "done", !.res = "Ok"]
  /\ UNCHANGED <<clock, lastWriter, xp, rf, yt, ops, listener, oa>>

write_config_data_ok ==
  /\ sc.pc = "w2"
  /\ cfgFile' = ConfigFile(sc.cfg)
  /\ saved' = [saved EXCEPT !.cfg = Some(sc.cfg)]
  /\ sc' = [sc EXCEPT !.pc = "done", !.res = "Ok"]
  /\ UNCHANGED <<clock, tokFile, lastWriter, xp, rf, yt, ops, listener, oa>>

write_config_open == write_config_open_ok \/ (sc.pc = "w1" /\ write_config_fails)

write_config_data == write_config_data_ok \/ (sc.pc = "w2" /\ write_config_fails)

set_config_return ==
  /\ sc.pc = "done"
  /\ sc' = ScIdle
  /\ UNCHANGED <<clock, cfgFile, tokFile, lastWriter, xp, rf, yt, ops, listener, oa, saved>>

-----------------------------------------------------------------------------
(* The code exchange: exchange_and_persist, run by the exchange_code       *)
(* command (process 0) and by the task each callback request spawns.       *)

\* the answers of the token endpoint to a code exchange
ExchangeJson ==
  [access_token : ExchangeAccess, refresh_token : ExchangeRefresh,
   expires_in : ExpiresJson]

\* faulty variant: the access.is_empty() check is missing
perform_token_exchange_unchecked(json, now) ==
  [ok |-> TRUE,
   t |-> Tokens(AsStrOrDefault(json.access_token),
                AsStrOrDefault(json.refresh_token),
                AsU64OrZero(json.expires_in), now)]

\* perform_token_exchange, from the parsed JSON on
perform_token_exchange(json, now) ==
  LET access == AsStrOrDefault(json.access_token)
      refresh == AsStrOrDefault(json.refresh_token)
      expires_in == AsU64OrZero(json.expires_in)
  IN  IF access = ""
        THEN [ok |-> FALSE, t |-> TokDefault]
        ELSE [ok |-> TRUE, t |-> Tokens(access, refresh, expires_in, now)]

\* the exchange_code command
exchange_code(code) ==
  /\ NoCommand
  /\ ops < MaxOps
  /\ ops' = ops + 1
  /\ xp' = [xp EXCEPT ![0] = [XpFree EXCEPT !.pc = "rc", !.code = code]]
  /\ UNCHANGED <<clock, cfgFile, tokFile, lastWriter, sc, rf, yt, listener, oa, saved>>

\* faulty variant: the handler awaits the exchange before it answers
callback_awaits_exchange(i, code) ==
  /\ listener.st = "listening"
  /\ xp[i].pc = "free"
  /\ ops < MaxOps
  /\ ops' = ops + 1
  /\ xp' = [xp EXCEPT ![i] = [XpFree EXCEPT !.pc = "spawned", !.code = code]]
  /\ UNCHANGED <<clock, cfgFile, tokFile, lastWriter, sc, rf, yt, listener, oa, saved>>

\* the callback route: the handler spawns the task and answers at once
callback(i, code) ==
  /\ listener.st = "listening"
  /\ xp[i].pc = "free"
  /\ ops < MaxOps
  /\ ops' = ops + 1
  /\ xp' = [xp EXCEPT ![i] =
              [XpFree EXCEPT !.pc = "spawned", !.code = code, !.resp = Page]]
  /\ UNCHANGED <<clock, cfgFile, tokFile, lastWriter, sc, rf, yt, listener, oa, saved>>

\* faulty variant: the task exchanges whether or not the request carried a code
callback_task_without_code_check(i) ==
  /\ xp[i].pc = "spawned"
  /\ xp' = [xp EXCEPT ![i].pc = "rc"]
  /\ UNCHANGED <<clock, cfgFile, tokFile, lastWriter, sc, rf, yt, ops, listener, oa, saved>>

\* faulty variant: the task drops the code of the request
callback_task_drops_code(i) ==
  /\ xp[i].pc = "spawned"
  /\ xp' = [xp EXCEPT ![i].pc = "done"]
  /\ UNCHANGED <<clock, cfgFile, tokFile, lastWriter, sc, rf, yt, ops, listener, oa, saved>>

\* the spawned task: if let Some(code) = code { exchange_and_persist ... }
callback_task(i) ==
  /\ xp[i].pc = "spawned"
  /\ xp' = [xp EXCEPT ![i].pc = IF xp[i].code = NoCode THEN "done" ELSE "rc"]
  /\ UNCHANGED <<clock, cfgFile, tokFile, lastWriter, sc, rf, yt, ops, listener, oa, saved>>

\* faulty variant: the task uses the credentials the listener found at start
exchange_read_config_cached(i) ==
  /\ xp[i].pc = "rc"
  /\ xp' = [xp EXCEPT ![i] =
              [@ EXCEPT !.pc = "wait", !.cfg = AppConfig("id1", "s1"),
                        !.sent = TRUE]]
  /\ UNCHANGED <<clock, cfgFile, tokFile, lastWriter, sc, rf, yt, ops, listener, oa, saved>>

\* exchange_and_persist: read the config, then send the request
exchange_read_config(i) ==
  /\ xp[i].pc = "rc"
  /\ LET cfg == read_config_from_dir
     IN  xp' = [xp EXCEPT ![i] =
                  IF cfg.some
                    THEN [@ EXCEPT !.pc = "wait", !.cfg = cfg.v, !.sent = TRUE]
                    ELSE [@ EXCEPT !.pc = "done", !.res = "MissingConfig"]]
  /\ UNCHANGED <<clock, cfgFile, tokFile, lastWriter, sc, rf, yt, ops, listener, oa, saved>>

\* faulty variant: a failed exchange takes the listener down
exchange_error_stops_listener(i) ==
  /\ xp[i].pc = "wait"
  /\ \E e \in {"Transport", "Protocol"} :
       xp' = [xp EXCEPT ![i] = [@ EXCEPT !.pc = "done", !.res = e]]
  /\ listener' = IF i \in TaskIds THEN [listener EXCEPT !.st = "stopped"]
                                  ELSE listener
  /\ UNCHANGED <<clock, cfgFile, tokFile, lastWriter, sc, rf, yt, ops, oa, saved>>

\* the request fails, or the body is no JSON
exchange_error(i) ==
  /\ xp[i].pc = "wait"
  /\ \E e \in {"Transport", "Protocol"} :
       xp' = [xp EXCEPT ![i] = [@ EXCEPT !.pc = "done", !.res = e]]
  /\ UNCHANGED <<clock, cfgFile, tokFile, lastWriter, sc, rf, yt, ops, listener, oa, saved>>

\* the endpoint answers with the JSON object json
exchange_answer(i, json) ==
  /\ xp[i].pc = "wait"
  /\ LET r == perform_token_exchange(json, now_secs)
     IN  xp' = [xp EXCEPT ![i] =
                  IF r.ok
                    THEN [@ EXCEPT !.pc = "w1", !.t = r.t, !.json = json,
                                   !.acc = json.access_token]
                    ELSE [@ EXCEPT !.pc = "done", !.res = "Rejected",
                                   !.json = json, !.acc = json.access_token]]
  /\ UNCHANGED <<clock, cfgFile, tokFile, lastWriter, sc, rf, yt, ops, listener, oa, saved>>

exchange_response(i) == \E json \in ExchangeJson : exchange_answer(i, json)

Writer(i) == IF i = 0 THEN "exchange_code" ELSE "callback"

\* write_tokens_to_dir(cfg_dir, &t)?  -- open and truncate
exchange_write_open_ok(i) ==
  /\ xp[i].pc = "w1"
  /\ tokFile' = FileTorn
  /\ lastWriter' = Writer(i)
  /\ xp' = [xp EXCEPT ![i] = [@ EXCEPT !.pc = "w2", !.touched = TRUE]]
  /\ UNCHANGED <<clock, cfgFile, sc, rf, yt, ops, listener, oa, saved>>

\* fs::write returns an error: Err(e) of exchange_and_persist
exchange_write_fails(i) ==
  /\ xp[i].pc \in {"w1", "w2"}
  /\ xp' = [xp EXCEPT ![i] = [@ EXCEPT !.pc = "done", !.res = "PersistError"]]
  /\ UNCHANGED <<clock, cfgFile, tokFile, lastWriter, sc, rf, yt, ops, listener, oa, saved>>

\* write_tokens_to_dir(cfg_dir, &t)?  -- write the document; Ok(t)
exchange_write_data_ok(i) ==
  /\ xp[i].pc = "w2"
  /\ tokFile' = TokensFile(xp[i].t)
  /\ lastWriter' = Writer(i)
  /\ saved' = [saved EXCEPT !.tok = Some(xp[i].t)]
  /\ xp' = [xp EXCEPT ![i] =
              [@ EXCEPT !.pc = IF i = 0 THEN "done" ELSE "h1",
                        !.res = "Ok", !.writes = @ + 1]]
  /\ UNCHANGED <<clock, cfgFile, sc, rf, yt, ops, listener, oa>>

exchange_write_open(i) ==
  exchange_write_open_ok(i) \/ (xp[i].pc = "w1" /\ exchange_write_fails(i))

exchange_write_data(i) ==
  exchange_write_data_ok(i) \/ (xp[i].pc = "w2" /\ exchange_write_fails(i))

\* the task, after Ok(t): let _ = std::fs::write(&tokens_file, s)
task_write_open_ok(i) ==
  /\ i \in TaskIds
  /\ xp[i].pc = "h1"
  /\ tokFile' = FileTorn
  /\ lastWriter' = Writer(i)
  /\ xp' = [xp EXCEPT ![i].pc = "h2"]
  /\ UNCHANGED <<clock, cfgFile, sc, rf, yt, ops, listener, oa, saved>>

\* std::fs::write returns an error, which let _ drops
task_write_fails(i) ==
  /\ i \in TaskIds
  /\ xp[i].pc \in {"h1", "h2"}
  /\ xp' = [xp EXCEPT ![i].pc = "done"]
  /\ UNCHANGED <<clock, cfgFile, tokFile, lastWriter, sc, rf, yt, ops, listener, oa, saved>>

task_write_data_ok(i) ==
  /\ i \in TaskIds
  /\ xp[i].pc = "h2"
  /\ tokFile' = TokensFile(xp[i].t)
  /\ lastWriter' = Writer(i)
  /\ saved' = [saved EXCEPT !.tok = Some(xp[i].t)]
  /\ xp' = [xp EXCEPT ![i] = [@ EXCEPT !.pc = "done", !.writes = @ + 1]]
  /\ UNCHANGED <<clock, cfgFile, sc, rf, yt, ops, listener, oa>>

task_write_open(i) ==
  task_write_open_ok(i) \/ (xp[i].pc = "h1" /\ task_write_fails(i))

task_write_data(i) ==
  task_write_data_ok(i) \/ (xp[i].pc = "h2" /\ task_write_fails(i))

\* the command returns, the task ends
exchange_return(i) ==
  /\ xp[i].pc = "done"
  /\ xp' = [xp EXCEPT ![i] = XpFree]
  /\ UNCHANGED <<clock, cfgFile, tokFile, lastWriter, sc, rf, yt, ops, listener, oa, saved>>

-----------------------------------------------------------------------------
(* refresh_tokens: the command, also called by youtube_list_channels.      *)

\* the answers of the token endpoint to a refresh
RefreshJson ==
  [access_token : RefreshAccess, refresh_token : RefreshRefresh,
   expires_in : ExpiresJson]

\* faulty variant: the refresh_token is taken from the answer, as the exchange does
ApplyRefresh_from_response(t, json, now) ==
  [t EXCEPT !.access_token = AsStrOrDefault(json.access_token),
            !.refresh_token = AsStrOrDefault(json.refresh_token),
            !.expires_in = AsU64OrZero(json.expires_in),
            !.created_at = now]

\* t.access_token = access; t.expires_in = expires_in; t.created_at = now_secs()
ApplyRefresh(t, json, now) ==
  [t EXCEPT !.access_token = AsStrOrDefault(json.access_token),
            !.expires_in = AsU64OrZero(json.expires_in),
            !.created_at = now]

\* faulty variant: the empty check is missing
NoRefreshToken_unchecked(t) == FALSE

\* if t.refresh_token.is_empty() { return Err(..) }
NoRefreshToken(t) == t.refresh_token = ""

\* the refresh_tokens command, invoked from the UI
refresh_tokens ==
  /\ NoCommand
  /\ ops < MaxOps
  /\ ops' = ops + 1
  /\ rf' = [RfIdle EXCEPT !.pc = "rc", !.caller = "command"]
  /\ UNCHANGED <<clock, cfgFile, tokFile, lastWriter, sc, xp, yt, listener, oa, saved>>

\* let cfg = read_config(&app).ok_or(..)?
refresh_read_config ==
  /\ rf.pc = "rc"
  /\ LET cfg == read_config_from_dir
     IN  rf' = IF cfg.some
                 THEN [rf EXCEPT !.pc = "rt", !.cfg = cfg.v]
                 ELSE [rf EXCEPT !.pc = "done", !.res = "MissingConfig"]
  /\ UNCHANGED <<clock, cfgFile, tokFile, lastWriter, sc, xp, yt, ops, listener, oa, saved>>

\* let mut t = read_tokens(&app).ok_or(..)?; the empty check; the request
refresh_read_tokens ==
  /\ rf.pc = "rt"
  /\ LET t == read_tokens_from_dir
     IN  rf' = IF ~t.some
                 THEN [rf EXCEPT !.pc = "done", !.res = "NoTokens"]
                 ELSE IF NoRefreshToken(t.v)
                   THEN [rf EXCEPT !.pc = "done", !.t = t.v,
                                   !.res = "NoRefreshToken"]
                   ELSE [rf EXCEPT !.pc = "wait", !.t = t.v, !.sent = TRUE]
  /\ UNCHANGED <<clock, cfgFile, tokFile, lastWriter, sc, xp, yt, ops, listener, oa, saved>>

\* the request fails, or the body is no JSON
refresh_error ==
  /\ rf.pc = "wait"
  /\ \E e \in {"Transport", "Protocol"} :
       rf' = [rf EXCEPT !.pc = "done", !.res = e]
  /\ UNCHANGED <<clock, cfgFile, tokFile, lastWriter, sc, xp, yt, ops, listener, oa, saved>>

\* faulty variant: the refresh takes an answer without access_token
RefreshRejected_unchecked(json) == FALSE

\* if access.is_empty() { return Err(..) }
RefreshRejected(json) == AsStrOrDefault(json.access_token) = ""

\* the endpoint answers with a JSON object
refresh_response ==
  /\ rf.pc = "wait"
  /\ \E json \in RefreshJson :
       rf' = IF RefreshRejected(json)
               THEN [rf EXCEPT !.pc = "done", !.res = "Rejected"]
               ELSE [rf EXCEPT !.pc = "w1", !.nt = ApplyRefresh(rf.t, json, now_secs),
                               !.json = json]
  /\ UNCHANGED <<clock, cfgFile, tokFile, lastWriter, sc, xp, yt, ops, listener, oa, saved>>

\* write_tokens(&app, &t)?  -- open and truncate
refresh_write_open ==
  /\ rf.pc = "w1"
  /\ \/ /\ tokFile' = FileTorn
        /\ lastWriter' = "refresh"
        /\ rf' = [rf EXCEPT !.pc = "w2", !.touched = TRUE]
     \/ /\ rf' = [rf EXCEPT !.pc = "done", !.res = "PersistError"]
        /\ UNCHANGED <<tokFile, lastWriter>>
  /\ UNCHANGED <<clock, cfgFile, sc, xp, yt, ops, listener, oa, saved>>

\* write_tokens(&app, &t)?  -- write the document; Ok(t)
refresh_write_data ==
  /\ rf.pc = "w2"
  /\ \/ /\ tokFile' = TokensFile(rf.nt)
        /\ lastWriter' = "refresh"
        /\ saved' = [saved EXCEPT !.tok = Some(rf.nt)]
        /\ rf' = [rf EXCEPT !.pc = "done", !.res = "Ok"]
     \/ /\ rf' = [rf EXCEPT !.pc = "done", !.res = "PersistError"]
        /\ UNCHANGED <<tokFile, lastWriter, saved>>
  /\ UNCHANGED <<clock, cfgFile, sc, xp, yt, ops, listener, oa>>

\* the command returns to the UI
refresh_return ==
  /\ rf.pc = "done"
  /\ rf.caller = "command"
  /\ rf' = RfIdle
  /\ UNCHANGED <<clock, cfgFile, tokFile, lastWriter, sc, xp, yt, ops, listener, oa, saved>>

-----------------------------------------------------------------------------
(* youtube_list_channels: the authenticated call.                           *)

\* faulty variant: the expires_in > 0 guard is missing
NeedsRefresh_without_zero_guard(t, now) ==
  saturating_sub(now, t.created_at) + REFRESH_SKEW_SECONDS > t.expires_in

\* t.expires_in > 0 && now_secs().saturating_sub(t.created_at) + 60 > t.expires_in
NeedsRefresh(t, now) ==
  /\ t.expires_in > 0
  /\ saturating_sub(now, t.created_at) + REFRESH_SKEW_SECONDS > t.expires_in

\* faulty variant: read_tokens(&app).unwrap_or_default() -- no token set is
\* taken for an empty one
youtube_list_channels_or_default ==
  /\ NoCommand
  /\ ops < MaxOps
  /\ ops' = ops + 1
  /\ LET t == read_tokens_from_dir
         now == now_secs
     IN  yt' = [YtIdle EXCEPT
                  !.pc = IF NeedsRefresh(t.v, now) THEN "refresh" ELSE "api",
                  !.t = t.v, !.now = now, !.found = t.some,
                  !.need = NeedsRefresh(t.v, now)]
  /\ UNCHANGED <<clock, cfgFile, tokFile, lastWriter, sc, xp, rf, listener, oa, saved>>

\* let mut t = read_tokens(&app).ok_or(..)?; and the refresh decision
youtube_list_channels ==
  /\ NoCommand
  /\ ops < MaxOps
  /\ ops' = ops + 1
  /\ LET t == read_tokens_from_dir
         now == now_secs
     IN  yt' = IF ~t.some
                 THEN [YtIdle EXCEPT !.pc = "done", !.res = "NotAuthenticated"]
                 ELSE [YtIdle EXCEPT
                         !.pc = IF NeedsRefresh(t.v, now) THEN "refresh" ELSE "api",
                         !.t = t.v, !.now = now, !.found = TRUE,
                         !.need = NeedsRefresh(t.v, now)]
  /\ UNCHANGED <<clock, cfgFile, tokFile, lastWriter, sc, xp, rf, listener, oa, saved>>

\* let _ = refresh_tokens(app.clone()).await  -- the call
call_refresh ==
  /\ yt.pc = "refresh"
  /\ rf.pc = "idle"
  /\ rf' = [RfIdle EXCEPT !.pc = "rc", !.caller = "call"]
  /\ yt' = [yt EXCEPT !.pc = "await"]
  /\ UNCHANGED <<clock, cfgFile, tokFile, lastWriter, sc, xp, ops, listener, oa, saved>>

\* faulty variant: refresh_tokens(app.clone()).await? -- the error is returned
call_reread_propagates ==
  /\ yt.pc = "await"
  /\ rf.caller = "call"
  /\ rf.pc = "done"
  /\ LET t == read_tokens_from_dir
     IN  yt' = IF rf.res # "Ok"
                 THEN [yt EXCEPT !.pc = "done", !.res = rf.res]
                 ELSE IF t.some
                   THEN [yt EXCEPT !.pc = "api", !.t = t.v]
                   ELSE [yt EXCEPT !.pc = "done", !.res = "NoTokensAfterRefresh"]
  /\ UNCHANGED <<clock, cfgFile, tokFile, lastWriter, sc, xp, rf, ops, listener, oa, saved>>

\* faulty variant: the store is not read again after the refresh
call_reread_skipped ==
  /\ yt.pc = "await"
  /\ rf.caller = "call"
  /\ rf.pc = "done"
  /\ yt' = [yt EXCEPT !.pc = "api"]
  /\ UNCHANGED <<clock, cfgFile, tokFile, lastWriter, sc, xp, rf, ops, listener, oa, saved>>

\* the result of the refresh is dropped;
\* t = read_tokens(&app).ok_or("Brak tokenow po odswiezeniu")?
call_reread ==
  /\ yt.pc = "await"
  /\ rf.caller = "call"
  /\ rf.pc = "done"
  /\ LET t == read_tokens_from_dir
     IN  yt' = IF t.some
                 THEN [yt EXCEPT !.pc = "api", !.t = t.v]
                 ELSE [yt EXCEPT !.pc = "done", !.res = "NoTokensAfterRefresh"]
  /\ UNCHANGED <<clock, cfgFile, tokFile, lastWriter, sc, xp, rf, ops, listener, oa, saved>>

\* client.get(url).bearer_auth(&t.access_token).send() and its outcome
call_api ==
  /\ yt.pc = "api"
  /\ \E r \in {"Ok", "ApiError", "Transport", "Protocol"} :
       yt' = [yt EXCEPT !.pc = "done", !.bearer = yt.t.access_token, !.res = r]
  /\ UNCHANGED <<clock, cfgFile, tokFile, lastWriter, sc, xp, rf, ops, listener, oa, saved>>

\* the command returns to the UI
call_return ==
  /\ yt.pc = "done"
  /\ yt' = YtIdle
  /\ rf' = IF rf.caller = "call" THEN RfIdle ELSE rf
  /\ UNCHANGED <<clock, cfgFile, tokFile, lastWriter, sc, xp, ops, listener, oa, saved>>

-----------------------------------------------------------------------------

\* time passes
tick ==
  /\ \E n \in Times : n > clock /\ clock' = n
  /\ UNCHANGED <<cfgFile, tokFile, lastWriter, sc, xp, rf, yt, ops, listener, oa, saved>>

Next ==
  \/ setup
  \/ tick
  \/ start_oauth
  \/ start_oauth_return
  \/ \E c \in Creds : set_config(c)
  \/ write_config_open
  \/ write_config_data
  \/ set_config_return
  \/ \E code \in Codes : exchange_code(code)
  \/ \E i \in TaskIds, code \in Codes \cup {NoCode} : callback(i, code)
  \/ \E i \in TaskIds : callback_task(i)
  \/ \E i \in ExIds : exchange_read_config(i)
  \/ \E i \in ExIds : exchange_error(i)
  \/ \E i \in ExIds : exchange_response(i)
  \/ \E i \in ExIds : exchange_write_open(i)
  \/ \E i \in ExIds : exchange_write_data(i)
  \/ \E i \in TaskIds : task_write_open(i)
  \/ \E i \in TaskIds : task_write_data(i)
  \/ \E i \in ExIds : exchange_return(i)
  \/ refresh_tokens
  \/ refresh_read_config
  \/ refresh_read_tokens
  \/ refresh_error
  \/ refresh_response
  \/ refresh_write_open
  \/ refresh_write_data
  \/ refresh_return
  \/ youtube_list_channels
  \/ call_refresh
  \/ call_reread
  \/ call_api
  \/ call_return

Spec == Init /\ [][Next]_vars

-----------------------------------------------------------------------------
(* The refresh policy on its own: the authenticated call, with the refresh *)
(* it may make, started at any clock value on any stored token set, so     *)
(* that the decision meets every age around the 60 s buffer and a          *)
(* created_at that lies in the future.                                      *)

PolicyTimes == {0, 3500, 3540, 3541, 3600}

PolicyTokens ==
  { Tokens("A1", r, e, c) : r \in {"", "R1"}, e \in {0, 3600}, c \in PolicyTimes }

PolicyInit ==
  /\ clock \in PolicyTimes
  /\ cfgFile = ConfigFile(AppConfig("id1", "s1"))
  /\ tokFile \in {TokensFile(t) : t \in PolicyTokens}
  /\ lastWriter = "none"
  /\ sc = ScIdle
  /\ xp = [i \in ExIds |-> XpFree]
  /\ rf = RfIdle
  /\ yt = YtIdle
  /\ ops = 0
  /\ listener = [st |-> "listening", binds |-> 1]
  /\ oa = OaIdle
  /\ saved = SavedIn(cfgFile, tokFile)

PolicyNext ==
  \/ youtube_list_channels
  \/ call_refresh
  \/ refresh_read_config
  \/ refresh_read_tokens
  \/ refresh_error
  \/ refresh_response
  \/ refresh_write_open
  \/ refresh_write_data
  \/ call_reread
  \/ call_api
  \/ call_return

PolicySpec == PolicyInit /\ [][PolicyNext]_vars

-----------------------------------------------------------------------------
(* The callback path on its own, for its progress: the client config is    *)
(* stored, the listener is listening, the token endpoint answers every     *)
(* exchange with a non-empty access_token, the writes of tokens.json       *)
(* succeed and nothing else writes it. The tokio runtime of the listener   *)
(* thread runs every spawned task to its end: weak fairness of its steps.  *)

GoodExchangeJson == { j \in ExchangeJson : j.access_token \notin {Absent, ""} }

LiveInit ==
  /\ clock = 0
  /\ cfgFile \in {ConfigFile(c) : c \in Creds}
  /\ tokFile \in {FileNone} \cup {TokensFile(t) : t \in StoredTokens}
  /\ lastWriter = "none"
  /\ sc = ScIdle
  /\ xp = [i \in ExIds |-> XpFree]
  /\ rf = RfIdle
  /\ yt = YtIdle
  /\ ops = 0
  /\ listener = [st |-> "listening", binds |-> 1]
  /\ oa = OaIdle
  /\ saved = SavedIn(cfgFile, tokFile)

TaskStep(i) ==
  \/ callback_task(i)
  \/ exchange_read_config(i)
  \/ \E json \in GoodExchangeJson : exchange_answer(i, json)
  \/ exchange_write_open_ok(i)
  \/ exchange_write_data_ok(i)
  \/ task_write_open_ok(i)
  \/ task_write_data_ok(i)

LiveNext ==
  \/ tick
  \/ \E i \in TaskIds, code \in Codes \cup {NoCode} : callback(i, code)
  \/ \E i \in TaskIds : TaskStep(i)
  \/ \E i \in TaskIds : exchange_return(i)

LiveSpec ==
  /\ LiveInit
  /\ [][LiveNext]_vars
  /\ \A i \in TaskIds : WF_vars(TaskStep(i))

-----------------------------------------------------------------------------
(* Properties *)

\* the call has taken its refresh decision on yt.t at time yt.now
Decided ==
  \/ yt.pc \in {"refresh", "await"}
  \/ yt.pc = "api" /\ ~yt.need

\* the ways a refresh fails without having opened tokens.json
RefreshFailures ==
  {"MissingConfig", "NoTokens", "NoRefreshToken", "Transport", "Protocol", "Rejected"}

ApiOutcomes == {"Ok", "ApiError", "Transport", "Protocol"}

\* C1: the refresh decision of the authenticated call is true exactly when
\* expires_in > 0 and (now - created_at) + 60 >= expires_in, for now >=
\* created_at; so it is true at age 3540 of a token set with expires_in 3600.
C1_RefreshDecision ==
  (Decided /\ yt.now >= yt.t.created_at) =>
    (yt.need <=>
       (/\ yt.t.expires_in > 0
        /\ (yt.now - yt.t.created_at) + 60 >= yt.t.expires_in))

\* C2: for a stored token set with expires_in = 0 the authenticated call
\* decides against the refresh and never calls refresh_tokens, whatever
\* created_at and the clock are (created_at in the future included).
C2_ZeroExpiryNeverRefreshes ==
  /\ (Decided /\ yt.t.expires_in = 0) => ~yt.need
  /\ (yt.pc \in {"refresh", "await"} \/ (rf.caller = "call" /\ rf.pc # "done"))
       => yt.t.expires_in > 0

C2_Witness ==
  /\ yt.pc = "api"
  /\ ~yt.need
  /\ yt.t.expires_in = 0
  /\ yt.t.created_at > yt.now
  /\ rf.pc = "idle"

\* C3: when refresh_tokens succeeds on an answer without refresh_token, the
\* token set it has persisted carries the refresh_token of the token set it
\* read from the store, which is not empty.
C3_RefreshKeepsRefreshToken ==
  (rf.pc = "done" /\ rf.res = "Ok" /\ rf.json.refresh_token = Absent) =>
    /\ rf.nt.refresh_token = rf.t.refresh_token
    /\ rf.nt.refresh_token # ""
    /\ lastWriter = "refresh" => read_tokens_from_dir = Some(rf.nt)

C3_Witness ==
  /\ rf.pc = "done"
  /\ rf.res = "Ok"
  /\ rf.json.refresh_token = Absent
  /\ lastWriter = "refresh"
  /\ tokFile.st = "ok"
  /\ read_tokens_from_dir.v.refresh_token = "R1"
  /\ read_tokens_from_dir.v.access_token = "A2"

\* C4: a successful refresh persists the access_token and expires_in of the
\* answer and the current time, keeps the stored refresh_token when the
\* answer has none, and persists the new refresh_token when the answer
\* carries one.
C4_RefreshTakesNewRefreshToken ==
  (rf.pc = "done" /\ rf.res = "Ok") =>
    /\ rf.nt.access_token = rf.json.access_token
    /\ rf.nt.expires_in = AsU64OrZero(rf.json.expires_in)
    /\ rf.json.refresh_token = Absent => rf.nt.refresh_token = rf.t.refresh_token
    /\ rf.json.refresh_token # Absent => rf.nt.refresh_token = rf.json.refresh_token
    /\ lastWriter = "refresh" => read_tokens_from_dir = Some(rf.nt)

C6_CallUsesRefreshedSet ==
  (yt.pc = "api" /\ yt.need /\ rf.caller = "call" /\ rf.res = "Ok") =>
    yt.t = rf.nt

\* C6, amended: a successful refresh persists the refreshed token set; the
\* call then reads the store again and uses what it finds: the refreshed
\* token set when nothing has opened tokens.json since the refresh wrote it,
\* otherwise the token set stored by then, and it fails when the store is
\* unreadable at that moment.
C6_CallUsesStoredSetAfterRefresh ==
  [][ /\ (rf.pc = "w2" /\ rf'.res = "Ok") => tokFile' = TokensFile(rf.nt)
      /\ (yt.pc = "await" /\ yt'.pc # "await" /\ rf.res = "Ok") =>
           /\ lastWriter = "refresh" => (yt'.pc = "api" /\ yt'.t = rf.nt)
           /\ tokFile.st = "ok" => (yt'.pc = "api" /\ yt'.t = read_tokens_from_dir.v)
           /\ tokFile.st # "ok" =>
                (yt'.pc = "done" /\ yt'.res = "NoTokensAfterRefresh")
      /\ (yt.pc = "api" /\ yt'.pc = "done") => yt'.bearer = yt.t.access_token
    ]_vars

C6_Witness ==
  /\ yt.pc = "done"
  /\ yt.need
  /\ rf.caller = "call"
  /\ rf.res = "Ok"
  /\ yt.t = rf.nt
  /\ yt.bearer = "A2"
  /\ read_tokens_from_dir = Some(rf.nt)

\* C7: an exchange whose answer has no access_token, or an empty one, ends
\* with an error without having opened tokens.json, in the exchange_code
\* command and in a callback task alike.
C7_RejectedExchangeWritesNothing ==
  \A i \in ExIds :
    xp[i].acc \in {Absent, ""} =>
      /\ xp[i].pc = "done"
      /\ xp[i].res = "Rejected"
      /\ ~xp[i].touched
      /\ xp[i].writes = 0

C7_Witness ==
  /\ xp[1].pc = "done"
  /\ xp[1].acc = Absent
  /\ xp[1].res = "Rejected"
  /\ lastWriter = "none"
  /\ tokFile.st = "ok"

\* C8: refresh_tokens on a stored token set with an empty refresh_token
\* fails with the no-refresh-token error, has sent no request and has not
\* opened tokens.json.
C8_NoRefreshTokenFailsEarly ==
  (/\ rf.pc \notin {"idle", "rc", "rt"}
   /\ rf.res \notin {"MissingConfig", "NoTokens"}
   /\ rf.t.refresh_token = "") =>
    /\ rf.pc = "done"
    /\ rf.res = "NoRefreshToken"
    /\ ~rf.sent
    /\ ~rf.touched

C8_Witness ==
  /\ rf.pc = "done"
  /\ rf.caller = "command"
  /\ rf.res = "NoRefreshToken"
  /\ ~rf.sent
  /\ read_tokens_from_dir = Some(rf.t)

\* C9: a callback request without a code is answered with the fixed page,
\* sends no exchange request and does not open tokens.json.
C9_CallbackWithoutCode ==
  \A i \in TaskIds :
    (xp[i].pc # "free" /\ xp[i].code = NoCode) =>
      /\ xp[i].resp = Page
      /\ xp[i].pc \in {"spawned", "done"}
      /\ xp[i].res = "none"
      /\ ~xp[i].sent
      /\ ~xp[i].touched
      /\ xp[i].writes = 0

C9_Witness ==
  /\ xp[1].pc = "done"
  /\ xp[1].code = NoCode
  /\ xp[1].resp = Page
  /\ ops = MaxOps

\* C10: every callback request has been answered with the fixed page as soon
\* as its task exists, whatever the task does or has done: not started, in
\* flight, failed or succeeded.
C10_CallbackAnswersAtOnce ==
  \A i \in TaskIds : xp[i].pc # "free" => xp[i].resp = Page

C10_Witness ==
  /\ xp[1].pc = "wait"
  /\ xp[1].sent
  /\ xp[1].res = "none"
  /\ xp[1].resp = Page

\* C11: saving a token set or a config is all-or-nothing: once a record has
\* been saved, the file holds a complete record (the previous one or the new
\* one) at every moment, so a load never finds it empty or partly written,
\* while a write is in progress and after a write has failed alike.
C11_SaveIsAllOrNothing ==
  /\ saved.tok.some => read_tokens_from_dir.some
  /\ saved.cfg.some => read_config_from_dir.some

\* the token sets and configs the program can hold
AllTokens ==
  { Tokens(a, r, e, c) : a \in {"", "A1", "A2"}, r \in {"", "R1", "R2"},
                         e \in {0, 3600}, c \in Times }

AllConfigs == Creds \cup {CfgDefault}

\* C12: round trip. Parsing the document written for a config or a token set
\* gives that value back, all fields (evaluated for every value of the model
\* before the first operation starts); and after a successful write that no
\* other write has followed (set_config, the exchange in the command and in
\* a callback task, the refresh), reading the file returns the value written.
C12_RoundTrip ==
  /\ ops = 0 =>
       /\ \A c \in AllConfigs :
            from_str_config(to_string_pretty_config(c)) = Some(c)
       /\ \A t \in AllTokens : from_str(to_string_pretty(t)) = Some(t)
  /\ (sc.pc = "done" /\ sc.res = "Ok") => read_config_from_dir = Some(sc.cfg)
  /\ \A i \in ExIds :
       (/\ xp[i].pc = (IF i = 0 THEN "done" ELSE "h1")
        /\ xp[i].res = "Ok"
        /\ lastWriter = Writer(i)) => read_tokens_from_dir = Some(xp[i].t)
  /\ (rf.pc = "done" /\ rf.res = "Ok" /\ lastWriter = "refresh") =>
       read_tokens_from_dir = Some(rf.nt)

C12_Witness ==
  /\ xp[1].pc = "h1"
  /\ xp[1].res = "Ok"
  /\ lastWriter = "callback"
  /\ xp[1].t.created_at = 3541
  /\ read_tokens_from_dir = Some(xp[1].t)
  /\ read_config_from_dir = Some(AppConfig("id2", "s2"))

\* task i has ended with success and tokens.json holds the access_token,
\* refresh_token and expires_in of the answer to its exchange
Persisted(i) ==
  /\ xp[i].pc = "done"
  /\ xp[i].res = "Ok"
  /\ read_tokens_from_dir.some
  /\ read_tokens_from_dir.v.access_token = xp[i].json.access_token
  /\ read_tokens_from_dir.v.refresh_token = AsStrOrDefault(xp[i].json.refresh_token)
  /\ read_tokens_from_dir.v.expires_in = AsU64OrZero(xp[i].json.expires_in)

\* C13: with the config stored, the listener listening, an endpoint that
\* answers with a non-empty access_token and no other writer, every callback
\* request that carries a code leads to a stored token set with the
\* access_token, refresh_token and expires_in of the answer, under fair
\* scheduling of the spawned task.
C13_CallbackEventuallyPersists ==
  \A i \in TaskIds :
    (xp[i].pc = "spawned" /\ xp[i].code # NoCode) ~> Persisted(i)

C13_Witness ==
  /\ Persisted(1)
  /\ xp[1].code = "c1"
  /\ xp[1].json.refresh_token = "R1"
  /\ xp[1].json.expires_in = 3600
  /\ xp[1].writes = 2
  /\ read_tokens_from_dir = Some(Tokens("A1", "R1", 3600, 3541))

\* C14: the callback port is bound at most once in the life of the
\* application: by the setup closure, and never again, whatever logins
\* (start_oauth) and callback requests follow in whatever order; one listener
\* at most exists.
C14_ListenerBoundAtMostOnce ==
  /\ listener.binds <= 1
  /\ listener.st = "starting" <=> listener.binds = 0
  /\ oa.pc # "idle" => listener.binds = 1

C14_Witness ==
  /\ listener.binds = 1
  /\ listener.st = "listening"
  /\ oa.pc = "done"
  /\ oa.launched
  /\ ops = 2
  /\ lastWriter = "callback"

\* C15: once the listener listens it stays listening through every step of
\* every request it handles, whether the exchange of the request fails
\* (missing config, transport error, rejection, failed write) or succeeds;
\* when a task has ended the route is free again, so that a later callback
\* with a code is accepted and makes its own exchange.
C15_ListenerStaysListening ==
  [][ listener.st = "listening" =>
        /\ listener'.st = "listening"
        /\ \A i \in TaskIds :
             (xp[i].pc = "done" /\ xp'[i].pc # "done") => xp'[i] = XpFree
    ]_vars

C15_Witness ==
  /\ listener.st = "listening"
  /\ lastWriter = "callback"
  /\ xp[1].pc = "wait"
  /\ xp[1].code = "c1"
  /\ xp[1].sent
  /\ ~xp[1].touched
  /\ ops = 2

\* C16: start_oauth with no config stored fails with the missing-config
\* error, launches no browser and leaves both files as they are; with a
\* config stored it launches the browser on the consent URL of the stored
\* client_id and returns success in the same step, whatever the state of the
\* callback tasks, which it leaves alone.
C16_StartOauth ==
  [][ (oa.pc = "idle" /\ oa'.pc = "done") =>
        /\ cfgFile' = cfgFile
        /\ tokFile' = tokFile
        /\ xp' = xp
        /\ IF read_config_from_dir.some
             THEN /\ oa'.res = "Ok"
                  /\ oa'.launched
                  /\ oa'.client_id = read_config_from_dir.v.client_id
             ELSE /\ oa'.res = "MissingConfig"
                  /\ ~oa'.launched
    ]_vars

C16_Witness ==
  /\ oa.pc = "done"
  /\ oa.res = "MissingConfig"
  /\ ~oa.launched
  /\ cfgFile.st = "none"
  /\ tokFile.st = "ok"
  /\ xp[1].pc = "free"

\* C17: an authenticated call that finds no token set stored ends with the
\* not-authenticated error: it has taken no refresh decision, has not called
\* refresh_tokens (the one way it could write tokens.json) and has sent no
\* API request.
C17_NotAuthenticated ==
  (yt.pc # "idle" /\ ~yt.found) =>
    /\ yt.pc = "done"
    /\ yt.res = "NotAuthenticated"
    /\ ~yt.need
    /\ yt.bearer = "none"
    /\ rf.caller # "call"

C17_Witness ==
  /\ yt.pc = "done"
  /\ ~yt.found
  /\ yt.res = "NotAuthenticated"
  /\ tokFile.st = "none"
  /\ rf.pc = "idle"
  /\ lastWriter = "none"

\* C18: a callback request with a code makes one exchange request and, when
\* the exchange succeeds, its task writes tokens.json once: a task that has
\* ended with success has completed exactly one write, and no task ever
\* completes a second one.
C18_ExchangeAndPersistOnce ==
  \A i \in TaskIds :
    /\ xp[i].writes <= 1
    /\ (xp[i].pc = "done" /\ xp[i].res = "Ok") => (xp[i].sent /\ xp[i].writes = 1)

\* C19: the exchange of a callback task reads the config when the task runs:
\* the client_id and client_secret of its request are those stored at that
\* moment (those of the last set_config, not those of the start of the
\* listener), and with no config stored then it ends with the missing-config
\* error, sends no request and leaves tokens.json alone.
C19_CallbackUsesStoredConfig ==
  [][ \A i \in TaskIds :
        (xp[i].pc = "rc" /\ xp'[i].pc # "rc") =>
          IF read_config_from_dir.some
            THEN /\ xp'[i].pc = "wait"
                 /\ xp'[i].sent
                 /\ xp'[i].cfg = read_config_from_dir.v
                 /\ saved.cfg.some => xp'[i].cfg = saved.cfg.v
            ELSE /\ xp'[i].pc = "done"
                 /\ xp'[i].res = "MissingConfig"
                 /\ ~xp'[i].sent
                 /\ ~xp'[i].touched
                 /\ tokFile' = tokFile
    ]_vars

C19_Witness ==
  /\ xp[1].pc = "wait"
  /\ xp[1].sent
  /\ xp[1].cfg = AppConfig("id2", "s2")
  /\ saved.cfg = Some(AppConfig("id2", "s2"))
  /\ sc.pc = "idle"

\* no command is running and no callback task is alive
Quiescent ==
  /\ NoCommand
  /\ \A i \in TaskIds : xp[i].pc = "free"

\* C20: every save writes a token set that is whole and of one origin: the
\* four fields of one exchange result, or one refresh answer applied to a
\* token set read whole from the store; and when all operations have
\* finished, tokens.json holds the value of the last save that completed,
\* under any interleaving of callback exchanges and refreshes.
C20_LastCompletedSaveWins ==
  /\ \A i \in ExIds :
       xp[i].pc \in {"w1", "w2", "h1", "h2"} =>
         xp[i].t = perform_token_exchange(xp[i].json, xp[i].t.created_at).t
  /\ rf.pc \in {"w1", "w2"} =>
       rf.nt = ApplyRefresh(rf.t, rf.json, rf.nt.created_at)
  /\ (Quiescent /\ saved.tok.some) => read_tokens_from_dir = saved.tok

\* C21: the config and the token set are independent records. A step that
\* changes oauth_config.json is a step of set_config's write and leaves
\* tokens.json, the exchanges and the refresh as they are; a step that
\* changes tokens.json (of an exchange, a callback task or a refresh) leaves
\* oauth_config.json and set_config as they are.
C21_ConfigAndTokensIndependent ==
  [][ /\ cfgFile' # cfgFile =>
           /\ sc.pc \in {"w1", "w2"}
           /\ sc'.pc # sc.pc
           /\ tokFile' = tokFile
           /\ saved'.tok = saved.tok
           /\ xp' = xp
           /\ rf' = rf
      /\ tokFile' # tokFile =>
           /\ cfgFile' = cfgFile
           /\ saved'.cfg = saved.cfg
           /\ sc' = sc
      /\ sc'.pc # sc.pc => tokFile' = tokFile
    ]_vars

C21_Witness ==
  /\ sc.pc = "done"
  /\ sc.res = "Ok"
  /\ read_config_from_dir = Some(AppConfig("id2", "s2"))
  /\ lastWriter = "callback"
  /\ xp[1].pc = "done"
  /\ xp[1].cfg = AppConfig("id1", "s1")
  /\ read_tokens_from_dir = Some(xp[1].t)

\* C22: no exchange and no refresh persists a token set with an empty
\* access_token: the token set an operation is about to write, the one last
\* saved and the one tokens.json holds, when there is one, all have a
\* non-empty access_token, from an empty store (or one left by an earlier
\* run) on, under every interleaving of exchanges, refreshes and calls.
C22_StoredAccessTokenNotEmpty ==
  /\ \A i \in ExIds :
       xp[i].pc \in {"w1", "w2", "h1", "h2"} => xp[i].t.access_token # ""
  /\ rf.pc \in {"w1", "w2"} => rf.nt.access_token # ""
  /\ saved.tok.some => saved.tok.v.access_token # ""
  /\ read_tokens_from_dir.some => read_tokens_from_dir.v.access_token # ""

C22_Witness ==
  /\ rf.pc = "done"
  /\ rf.res = "Ok"
  /\ rf.t = Tokens("A1", "R1", 3600, 3541)
  /\ lastWriter = "refresh"
  /\ read_tokens_from_dir = Some(rf.nt)
  /\ rf.nt.access_token = "A2"
  /\ xp[1].pc = "free"

=============================================================================
